---- MODULE Spec2Model ----
(***************************************************************************)
(* Model of the build planner's slot state machine: HeroBuild (the twelve  *)
(* item slots, their soul-cost unlock thresholds, equip / unequip / reset  *)
(* / load) together with the item shop that targets a slot and the app's   *)
(* item-selected handler that drives HeroBuild.setItem.                    *)
(*                                                                         *)
(* A JS array is a function whose domain is 0..length-1, so that the       *)
(* source's slot indices are kept.  An item is its identifier; the cost    *)
(* the item object carries is looked up in the catalogue `cost`.           *)
(***************************************************************************)
EXTENDS Integers, Sequences, FiniteSets, TLC

(***************************************************************************)
(* Bounds of the model.                                                    *)
(***************************************************************************)
\* number of items in the catalogue the shop offers
NumItems == 3
\* the callers address the always-usable slots 0..NumBaseUsed-1 and the
\* three gated slots; slots NumBaseUsed..8 have the same threshold 0
NumBaseUsed == 2

(***************************************************************************)
(* Program constants.                                                      *)
(***************************************************************************)
\* new Array(12), and the literal 12 of the loops and of loadBuild's guards
NumSlots == 12

\* this.unlockThresholds, index i of the source is position i+1 here
unlockThresholds == <<0, 0, 0, 0, 0, 0, 0, 0, 0, 3000, 6000, 9000>>

\* JS null in a slot: no item identifier is 0
NoItem == 0
\* JS null as ItemShop.targetSlot (the shop is hidden): no slot index is -1
NoSlot == -1

\* return values of setItem: the sentinel false, {success:false,
\* reason:'duplicate'}, {success:true}; NoResult when the last handler was
\* not an equip
RFalse == "false"
RDuplicate == "duplicate"
RSuccess == "success"
NoResult == "none"

ItemIds == 1..NumItems
SlotIndices == 0..(NumSlots - 1)

\* the slot indices the callers pass: slot elements exist for 0..11 only
UsedIndices ==
  {i \in SlotIndices : i < NumBaseUsed \/ unlockThresholds[i + 1] > 0}

(***************************************************************************)
(* The catalogue (public/data/items/*.json, loaded by ItemShop.loadItems)  *)
(* is input data.  Costs repeat the pattern 3000, 6000, 500, 1250 so that  *)
(* the totals 3000, 6000 and 9000 are hit exactly.                         *)
(***************************************************************************)
CostPattern == <<3000, 6000, 500, 1250>>

CatalogCost(id) == CostPattern[((id - 1) % 4) + 1]

\* the catalogue the data model describes: every cost a positive integer
PositiveCatalog == [id \in ItemIds |-> CatalogCost(id)]

\* a catalogue with an out-of-range (negative) cost, which nothing rejects
NegativeCatalog ==
  [id \in ItemIds |-> IF id = NumItems THEN 0 - CatalogCost(id) ELSE CatalogCost(id)]

VARIABLES
  slots,           \* HeroBuild.slots
  cost,            \* item.cost of the catalogue's items, fixed after loading
  result,          \* what the last setItem returned (NoResult: no setItem ran)
  notified,        \* whether the last operation invoked onStatsChange
  observed,        \* the slots the last onStatsChange call was handed
  targetSlot,      \* ItemShop.targetSlot: index of the slot the shop is open for
  captured,        \* a value getBuildData returned earlier, kept by the caller
  currentHero,     \* DeadlockDesigner.currentHero
  heroBase,        \* this.currentHero.baseStats
  upgrades,        \* AbilityPanel.upgrades
  abilityUpgrades, \* DeadlockDesigner.abilityUpgrades
  stats,           \* StatPanel.stats
  heroBuilds,      \* localStorage deadlock_hero_builds, by hero id
  pendingBuild,    \* the build init() handed to loadBuildFromData, until loaded
  lastCall         \* the last call of an exported calculator function, with its result

\* the state of the page around HeroBuild and the shop
appVars ==
  <<currentHero, heroBase, upgrades, abilityUpgrades, stats, heroBuilds, pendingBuild>>

vars ==
  <<slots, cost, result, notified, observed, targetSlot, captured, appVars, lastCall>>

(***************************************************************************)
(* JS array helpers.                                                       *)
(***************************************************************************)
ArrayLen(arr) == Cardinality(DOMAIN arr)

\* arr[index] = value; an index at or past the length grows the array
ArraySet(arr, index, value) ==
  IF index \in DOMAIN arr THEN [arr EXCEPT ![index] = value]
  ELSE [k \in (DOMAIN arr) \cup (0..index) |->
          IF k = index THEN value
          ELSE IF k \in DOMAIN arr THEN arr[k]
          ELSE NoItem]

\* new Array(12).fill(null)
EmptySlots == [k \in SlotIndices |-> NoItem]

(***************************************************************************)
(* HeroBuild: derived values.                                              *)
(***************************************************************************)
\* .filter(item => item !== null), as the list of the kept entries in order
RECURSIVE FilterNonNull(_, _)
FilterNonNull(arr, k) ==
  IF k \notin DOMAIN arr THEN <<>>
  ELSE IF arr[k] # NoItem THEN <<arr[k]>> \o FilterNonNull(arr, k + 1)
  ELSE FilterNonNull(arr, k + 1)

\* .reduce((sum, item) => sum + item.cost, 0)
RECURSIVE ReduceCost(_, _)
ReduceCost(items, sum) ==
  IF items = <<>> THEN sum
  ELSE ReduceCost(Tail(items), sum + cost[Head(items)])

\* a total that counts an identifier once however many slots hold it
RECURSIVE SumIds(_)
SumIds(ids) ==
  IF ids = {} THEN 0
  ELSE LET id == CHOOSE id \in ids : TRUE
       IN  cost[id] + SumIds(ids \ {id})

getTotalSoulsDistinct(arr) ==
  SumIds({arr[k] : k \in {j \in DOMAIN arr : arr[j] # NoItem}})

\* getTotalSouls: the filter, then the reduce
getTotalSouls(arr) == ReduceCost(FilterNonNull(arr, 0), 0)

\* the lock test with <= in place of <
isSlotLockedAtThreshold(arr, index) ==
  IF index + 1 \in DOMAIN unlockThresholds
  THEN getTotalSouls(arr) <= unlockThresholds[index + 1]
  ELSE FALSE

\* totalSouls < this.unlockThresholds[index]; past the table the threshold
\* is undefined and the comparison is false
isSlotLocked(arr, index) ==
  IF index + 1 \in DOMAIN unlockThresholds
  THEN getTotalSouls(arr) < unlockThresholds[index + 1]
  ELSE FALSE

\* this.slots.some(slot => slot && slot.id === itemId)
hasItem(arr, itemId) ==
  \E k \in DOMAIN arr : arr[k] # NoItem /\ arr[k] = itemId

\* getEquippedItemIds, as a set
getEquippedItemIds(arr) == {arr[k] : k \in {j \in DOMAIN arr : arr[j] # NoItem}}

(***************************************************************************)
(* HeroBuild.setItem                                                       *)
(***************************************************************************)
\* setItem without its duplicate test
setItemResultNoDuplicateTest(arr, index, item) ==
  IF isSlotLocked(arr, index) THEN RFalse ELSE RSuccess

\* setItem without its lock test
setItemResultNoLockTest(arr, index, item) ==
  IF hasItem(arr, item) THEN RDuplicate ELSE RSuccess

\* setItem with the duplicate test ahead of the lock test
setItemResultDuplicateFirst(arr, index, item) ==
  IF hasItem(arr, item) THEN RDuplicate
  ELSE IF isSlotLocked(arr, index) THEN RFalse
  ELSE RSuccess

\* the value setItem returns: the lock test first, then the duplicate test
setItemResult(arr, index, item) ==
  IF isSlotLocked(arr, index) THEN RFalse
  ELSE IF hasItem(arr, item) THEN RDuplicate
  ELSE RSuccess

\* setItem that leaves an occupied slot as it is
setItemSlotsKeepOccupant(arr, index, item) ==
  IF setItemResult(arr, index, item) = RSuccess /\ arr[index] = NoItem
  THEN ArraySet(arr, index, item)
  ELSE arr

\* the slots setItem leaves: this.slots[index] = item past both early returns
setItemSlots(arr, index, item) ==
  IF setItemResult(arr, index, item) = RSuccess
  THEN ArraySet(arr, index, item)
  ELSE arr

\* whether setItem reaches this.onStatsChange(...)
setItemNotifies(arr, index, item) == setItemResult(arr, index, item) = RSuccess

(***************************************************************************)
(* HeroBuild.removeItem and HeroBuild.reset                                *)
(***************************************************************************)
\* removeItem that also empties every slot the removal leaves locked
removeItemSlotsEvicting(arr, index) ==
  LET cleared == ArraySet(arr, index, NoItem)
  IN  [k \in DOMAIN cleared |-> IF isSlotLocked(cleared, k) THEN NoItem ELSE cleared[k]]

\* this.slots[index] = null, with no test of any kind
removeItemSlots(arr, index) == ArraySet(arr, index, NoItem)

\* for (let i = 0; i < 12; i++) this.slots[i] = null
RECURSIVE resetFrom(_, _)
resetFrom(arr, i) ==
  IF i < NumSlots THEN resetFrom(ArraySet(arr, i, NoItem), i + 1) ELSE arr

\* a reset whose loop stops at the first gated slot
resetSlotsBaseOnly(arr) ==
  [k \in DOMAIN arr |-> IF k + 1 \in DOMAIN unlockThresholds /\ unlockThresholds[k + 1] = 0
                        THEN NoItem ELSE arr[k]]

resetSlots(arr) == resetFrom(arr, 0)

(***************************************************************************)
(* HeroBuild.loadBuild                                                     *)
(***************************************************************************)
\* buildData null or without slots
NoBuildData == [format |-> "none"]

\* the categories walked in alphabetical order
LegacyCategoriesAlphabetical == <<"flex", "spirit", "vitality", "weapon">>

\* the order in which the legacy branch walks the categories
LegacyCategories == <<"weapon", "vitality", "spirit", "flex">>

\* array branch without the index < 12 guard
loadArrayEntryUnguarded(arr, item, index) == ArraySet(arr, index, item)

\* array branch with the legacy branch's guard: a null entry is skipped
loadArrayEntrySkippingNull(arr, item, index) ==
  IF index < NumSlots /\ item # NoItem THEN ArraySet(arr, index, item) ELSE arr

\* array branch, one entry: if (index < 12) this.slots[index] = item
loadArrayEntry(arr, item, index) ==
  IF index < NumSlots THEN ArraySet(arr, index, item) ELSE arr

\* buildData.slots.forEach((item, index) => ...)
RECURSIVE loadArrayFrom(_, _, _)
loadArrayFrom(arr, data, index) ==
  IF index \notin DOMAIN data THEN arr
  ELSE loadArrayFrom(loadArrayEntry(arr, data[index], index), data, index + 1)

\* legacy branch, one entry: if (slotIndex < 12 && item) this.slots[slotIndex] = item
loadLegacyEntry(arr, item, slotIndex) ==
  IF slotIndex < NumSlots /\ item # NoItem THEN ArraySet(arr, slotIndex, item) ELSE arr

\* buildData.slots[category].forEach(item => { ...; slotIndex++ })
RECURSIVE loadLegacyList(_, _, _, _)
loadLegacyList(arr, list, k, slotIndex) ==
  IF k > Len(list) THEN [slots |-> arr, slotIndex |-> slotIndex]
  ELSE loadLegacyList(loadLegacyEntry(arr, list[k], slotIndex), list, k + 1, slotIndex + 1)

\* ['weapon', 'vitality', 'spirit', 'flex'].forEach(category => ...); a
\* category the data does not have is skipped and consumes no index
RECURSIVE loadLegacyFrom(_, _, _, _)
loadLegacyFrom(arr, groups, c, slotIndex) ==
  IF c > Len(LegacyCategories) THEN arr
  ELSE IF LegacyCategories[c] \in DOMAIN groups
  THEN LET r == loadLegacyList(arr, groups[LegacyCategories[c]], 1, slotIndex)
       IN  loadLegacyFrom(r.slots, groups, c + 1, r.slotIndex)
  ELSE loadLegacyFrom(arr, groups, c + 1, slotIndex)

loadBuildSlots(arr, buildData) ==
  IF buildData.format = "none" THEN arr
  ELSE IF buildData.format = "array" THEN loadArrayFrom(arr, buildData.slots, 0)
  ELSE loadLegacyFrom(arr, buildData.slots, 1, 0)

\* getBuildData: { slots: [...this.slots] }
getBuildData(arr) == [format |-> "array", slots |-> arr]

(***************************************************************************)
(* Persisted / shared builds handed to loadBuild.  An entry is null or the *)
(* first or the last item of the catalogue; x sits at index 0, z at index  *)
(* n-1, and every entry between them is null.  n = 2 is a short array, 12  *)
(* the current format, 13 one entry too long.                              *)
(***************************************************************************)
LoadEntries == {NoItem, 1, NumItems}
LoadLengths == {2, NumSlots, NumSlots + 1}

ArrayData(x, z, n) ==
  [format |-> "array",
   slots  |-> [k \in 0..(n - 1) |-> IF k = 0 THEN x ELSE IF k = n - 1 THEN z ELSE NoItem]]

\* the same entries in the legacy grouping: x alone in weapon, no vitality
\* key, n-2 empty entries in spirit, z alone in flex
LegacyData(x, z, n) ==
  [format |-> "legacy",
   slots  |-> [c \in {"weapon", "spirit", "flex"} |->
                 IF c = "weapon" THEN <<x>>
                 ELSE IF c = "flex" THEN <<z>>
                 ELSE [k \in 1..(n - 2) |-> NoItem]]]

LoadInputs ==
  {NoBuildData}
    \cup {ArrayData(x, z, n) : x \in LoadEntries, z \in LoadEntries, n \in LoadLengths}
    \cup {LegacyData(x, z, n) : x \in LoadEntries, z \in LoadEntries, n \in LoadLengths}

(***************************************************************************)
(* Hero and item records (public/data/heroes/*.json, items/*.json) are     *)
(* input data.  A fraction of the source is counted in hundredths here     *)
(* (0.04 is 4), so that every stat is an integer.                          *)
(***************************************************************************)
\* this.currentHero = null
NoHero == "none"
HeroIds == {"h1", "h2"}

\* hero.baseStats; the stamina of h2 is 0
HeroBaseStats ==
  [h \in HeroIds |->
     IF h = "h1"
     THEN [health |-> 550, healthRegen |-> 2, bulletDamage |-> 12, fireRate |-> 5,
           clipSize |-> 20, reloadTime |-> 2, moveSpeed |-> 7, sprintSpeed |-> 1,
           stamina |-> 2]
     ELSE [health |-> 700, healthRegen |-> 1, bulletDamage |-> 30, fireRate |-> 2,
           clipSize |-> 8, reloadTime |-> 3, moveSpeed |-> 6, sprintSpeed |-> 2,
           stamina |-> 0]]

\* this.currentHero = null has no baseStats
NoBaseStats == [none |-> 0]

\* the ids of hero.abilities
HeroAbilities(h) == IF h = "h1" THEN {"a1"} ELSE {"b1"}

\* item.category and item.stats, by place in the catalogue
ItemCategories == <<"weapon", "vitality", "spirit">>

ItemCategory(id) == ItemCategories[((id - 1) % Len(ItemCategories)) + 1]

ItemStats(id) ==
  IF ItemCategory(id) = "weapon" THEN [weaponDamage |-> 6, clipSize |-> 4]
  ELSE IF ItemCategory(id) = "vitality" THEN [health |-> 100, bulletResist |-> 10]
  ELSE [spiritPower |-> 4, spiritResist |-> 100]

(***************************************************************************)
(* calculator.js                                                           *)
(***************************************************************************)
\* the fields calculateStats zeroes after copying the base stats
ZeroedStats ==
  {"weaponDamage", "spiritPower", "bulletLifesteal", "spiritLifesteal", "bulletResist",
   "spiritResist", "cooldownReduction", "abilityRange", "abilityDuration"}

\* { ...hero.baseStats }, the nine zeroed fields, stats.stamina || 3
StartingStats(base) ==
  [s \in (DOMAIN base) \cup ZeroedStats \cup {"stamina"} |->
     IF s \in ZeroedStats THEN 0
     ELSE IF s = "stamina"
          THEN (IF "stamina" \in DOMAIN base /\ base["stamina"] # 0 THEN base["stamina"] ELSE 3)
          ELSE base[s]]

\* item stats assigned in place of added: stats[stat] = value
ApplyItemStatsAssigning(st, itemStats) ==
  [s \in (DOMAIN st) \cup (DOMAIN itemStats) |->
     IF s \in DOMAIN itemStats THEN itemStats[s] ELSE st[s]]

\* Object.entries(item.stats).forEach: stats[stat] = (stats[stat] || 0) + value
ApplyItemStats(st, itemStats) ==
  [s \in (DOMAIN st) \cup (DOMAIN itemStats) |->
     (IF s \in DOMAIN st THEN st[s] ELSE 0)
       + (IF s \in DOMAIN itemStats THEN itemStats[s] ELSE 0)]

\* investmentTotals[item.category] = (investmentTotals[item.category] || 0) + item.cost
AddInvestment(totals, category, amount) ==
  [c \in (DOMAIN totals) \cup {category} |->
     (IF c \in DOMAIN totals THEN totals[c] ELSE 0) + (IF c = category THEN amount ELSE 0)]

\* items.forEach(item => ...): the investment totals and the summed stats;
\* if (!item) return skips a null entry
RECURSIVE ApplyItems(_, _, _)
ApplyItems(st, totals, items) ==
  IF items = <<>> THEN [stats |-> st, totals |-> totals]
  ELSE IF Head(items) = NoItem THEN ApplyItems(st, totals, Tail(items))
  ELSE ApplyItems(ApplyItemStats(st, ItemStats(Head(items))),
                  AddInvestment(totals, ItemCategory(Head(items)), cost[Head(items)]),
                  Tail(items))

\* a reduce that counts the cost of an identifier once, at its last entry
RECURSIVE ReduceCostOnce(_, _)
ReduceCostOnce(items, sum) ==
  IF items = <<>> THEN sum
  ELSE ReduceCostOnce(Tail(items),
         sum + (IF Head(items) = NoItem
                     \/ \E k \in DOMAIN Tail(items) : Tail(items)[k] = Head(items)
                THEN 0 ELSE cost[Head(items)]))

\* items.reduce((sum, item) => sum + (item?.cost || 0), 0)
RECURSIVE ReduceCostOrZero(_, _)
ReduceCostOrZero(items, sum) ==
  IF items = <<>> THEN sum
  ELSE ReduceCostOrZero(Tail(items),
         sum + (IF Head(items) # NoItem /\ cost[Head(items)] # 0
                THEN cost[Head(items)] ELSE 0))

\* the chain with > in place of >=: a spend on a breakpoint earns the tier below
TrackBonusStrict(total, bonus) ==
  IF total > 12000 THEN bonus[4]
  ELSE IF total > 5600 THEN bonus[3]
  ELSE IF total > 2400 THEN bonus[2]
  ELSE IF total > 800 THEN bonus[1]
  ELSE 0

\* one track of calculateInvestmentBonuses: the if / else-if chain
TrackBonus(total, bonus) ==
  IF total >= 12000 THEN bonus[4]
  ELSE IF total >= 5600 THEN bonus[3]
  ELSE IF total >= 2400 THEN bonus[2]
  ELSE IF total >= 800 THEN bonus[1]
  ELSE 0

calculateInvestmentBonuses(totals) ==
  [weapon   |-> [weaponDamage |-> TrackBonus(totals.weapon, <<4, 10, 18, 28>>)],
   vitality |-> [health |-> TrackBonus(totals.vitality, <<50, 125, 225, 375>>)],
   spirit   |-> [spiritPower |-> TrackBonus(totals.spirit, <<4, 12, 24, 40>>)]]

\* health / (1 - resist) as the fraction num/den; Infinity is 1/0
calculateEffectiveHealth(health, resist) ==
  IF resist >= 100 THEN [num |-> 1, den |-> 0]
  ELSE [num |-> health * 100, den |-> 100 - resist]

\* calculateStats(hero, items, abilityUpgrades): base is hero.baseStats,
\* items the list it is handed (recalculateStats hands it the non-null
\* entries of the slots); abilityUpgrades is never read
calculateStats(base, items, abilityUpgradesArg) ==
  LET applied == ApplyItems(StartingStats(base),
                            [weapon |-> 0, vitality |-> 0, spirit |-> 0], items)
      bonuses == calculateInvestmentBonuses(applied.totals)
      st      == [applied.stats EXCEPT
                    !["weaponDamage"] = @ + bonuses.weapon.weaponDamage,
                    !["health"]       = @ + bonuses.vitality.health,
                    !["spiritPower"]  = @ + bonuses.spirit.spiritPower]
      effectiveBulletDamage == st["bulletDamage"] * (100 + st["weaponDamage"])
  IN  [s \in (DOMAIN st) \cup {"investmentBonuses", "effectiveBulletDamage", "dps",
                               "burstDamage", "effectiveHealth", "effectiveHealthSpirit",
                               "totalSouls"} |->
         IF s = "investmentBonuses" THEN bonuses
         ELSE IF s = "effectiveBulletDamage" THEN effectiveBulletDamage
         ELSE IF s = "dps" THEN effectiveBulletDamage * st["fireRate"]
         ELSE IF s = "burstDamage" THEN effectiveBulletDamage * st["clipSize"]
         ELSE IF s = "effectiveHealth"
              THEN calculateEffectiveHealth(st["health"], st["bulletResist"])
         ELSE IF s = "effectiveHealthSpirit"
              THEN calculateEffectiveHealth(st["health"], st["spiritResist"])
         ELSE IF s = "totalSouls" THEN ReduceCostOrZero(items, 0)
         ELSE st[s]]

\* hero.baseStats after the call, were stats the record itself and no copy
baseStatsAfterAliased(base, snapshot) == [s \in DOMAIN base |-> snapshot[s]]

\* hero.baseStats after the call: stats is a copy, the record is untouched
baseStatsAfter(base, snapshot) == base

\* the cost of the upgrade tiers, costs[i] of the source at position i+1
UpgradeCosts == <<1, 2, 5>>

\* for (let i = 0; i < level && i < costs.length; i++) total += costs[i]
RECURSIVE LevelCost(_, _)
LevelCost(level, i) ==
  IF i < level /\ i < Len(UpgradeCosts) THEN UpgradeCosts[i + 1] + LevelCost(level, i + 1)
  ELSE 0

\* Object.values(abilityUpgrades).forEach(level => ...)
RECURSIVE SumLevelCosts(_, _)
SumLevelCosts(ups, ids) ==
  IF ids = {} THEN 0
  ELSE LET a == CHOOSE a \in ids : TRUE
       IN  LevelCost(ups[a], 0) + SumLevelCosts(ups, ids \ {a})

calculateAbilityPointsUsed(ups) == SumLevelCosts(ups, DOMAIN ups)

\* the milestone table of getAbilityPointsAvailable, as <<souls, points>>
Milestones ==
  << <<0, 1>>, <<1000, 2>>, <<2500, 3>>, <<4000, 4>>, <<6000, 5>>, <<8000, 6>>,
     <<10000, 7>>, <<13000, 8>>, <<16000, 9>>, <<20000, 10>>, <<25000, 11>>,
     <<30000, 12>> >>

\* the loop with > in place of >=: a total on a milestone has not reached it
RECURSIVE MilestoneLoopStrict(_, _, _)
MilestoneLoopStrict(totalSouls, m, points) ==
  IF m > Len(Milestones) THEN points
  ELSE IF totalSouls > Milestones[m][1]
       THEN MilestoneLoopStrict(totalSouls, m + 1, Milestones[m][2])
       ELSE points

\* for (const milestone of milestones): take the points, or break
RECURSIVE MilestoneLoop(_, _, _)
MilestoneLoop(totalSouls, m, points) ==
  IF m > Len(Milestones) THEN points
  ELSE IF totalSouls >= Milestones[m][1]
       THEN MilestoneLoop(totalSouls, m + 1, Milestones[m][2])
       ELSE points

getAbilityPointsAvailable(totalSouls) == MilestoneLoop(totalSouls, 1, 0)

(***************************************************************************)
(* calculateAbilityDamage.  An effect text is the list of its characters;  *)
(* the pattern /\+(\d+)\s*(?:Damage|DPS)/i is matched the way the regular  *)
(* expression engine does: first start, longest digit run that lets the    *)
(* rest match.                                                             *)
(***************************************************************************)
Digits == <<"0", "1", "2", "3", "4", "5", "6", "7", "8", "9">>

IsDigit(c) == \E d \in DOMAIN Digits : Digits[d] = c

DigitValue(c) == (CHOOSE d \in DOMAIN Digits : Digits[d] = c) - 1

\* the pattern without the i flag: a letter matches only itself
KeepCase(c) == c

\* the i flag: a letter of the text in either case matches the pattern's
Lower(c) ==
  LET upper == <<"D", "A", "M", "G", "E", "P", "S">>
      lower == <<"d", "a", "m", "g", "e", "p", "s">>
  IN  IF \E k \in DOMAIN upper : upper[k] = c
      THEN lower[CHOOSE k \in DOMAIN upper : upper[k] = c]
      ELSE c

\* (?:Damage|DPS)
PatternWords == {<<"d", "a", "m", "a", "g", "e">>, <<"d", "p", "s">>}

WordAt(text, p) ==
  \E w \in PatternWords :
    /\ p + Len(w) - 1 <= Len(text)
    /\ \A q \in DOMAIN w : Lower(text[p + q - 1]) = w[q]

\* \s*(?:Damage|DPS) from position p on
SpacesThenWordAt(text, p) ==
  \E n \in 0..Len(text) :
    /\ \A q \in p..(p + n - 1) : q <= Len(text) /\ text[q] = " "
    /\ WordAt(text, p + n)

\* the lengths of (\d+) with which the pattern matches at a + at position i
MatchLengths(text, i) ==
  {k \in 1..(Len(text) - i) :
     /\ \A q \in (i + 1)..(i + k) : IsDigit(text[q])
     /\ SpacesThenWordAt(text, i + k + 1)}

\* parseInt of the digits text[from..to]
RECURSIVE ParseInt(_, _, _, _)
ParseInt(text, from, to, acc) ==
  IF from > to THEN acc
  ELSE ParseInt(text, from + 1, to, acc * 10 + DigitValue(text[from]))

\* effect.match(...): null, or parseInt(match[1]) of the first match
effectMatch(text) ==
  LET starts == {i \in DOMAIN text : text[i] = "+" /\ MatchLengths(text, i) # {}}
  IN  IF starts = {} THEN [matched |-> FALSE, value |-> 0]
      ELSE LET i == CHOOSE i \in starts : \A j \in starts : i <= j
               k == CHOOSE k \in MatchLengths(text, i) :
                      \A l \in MatchLengths(text, i) : l <= k
           IN  [matched |-> TRUE, value |-> ParseInt(text, i + 1, i + k, 0)]

\* Math.round of a value counted in hundredths: floor(x + 0.5)
MathRound(hundredths) == (hundredths + 50) \div 100

\* if (upgradeLevel >= n && ability.upgrades[n-1]) { ... }, for n = 1, 2, 3
RECURSIVE upgradeDamageBonus(_, _, _)
upgradeDamageBonus(ability, upgradeLevel, n) ==
  IF n > Len(UpgradeCosts) THEN 0
  ELSE (IF upgradeLevel >= n /\ n \in DOMAIN ability.upgrades
           /\ effectMatch(ability.upgrades[n]).matched
        THEN effectMatch(ability.upgrades[n]).value ELSE 0)
         + upgradeDamageBonus(ability, upgradeLevel, n + 1)

\* return null
NoDamage == [null |-> TRUE]

\* calculateAbilityDamage(ability, spiritPower, upgradeLevel); baseDamage 0
\* stands for a missing one, spiritCoefficient is counted in hundredths
calculateAbilityDamage(ability, spiritPower, upgradeLevel) ==
  IF ability.baseDamage = 0 THEN NoDamage
  ELSE LET spiritBonus == spiritPower * ability.spiritCoefficient
           bonus       == upgradeDamageBonus(ability, upgradeLevel, 1)
       IN  [base         |-> ability.baseDamage,
            spiritBonus  |-> MathRound(spiritBonus),
            upgradeBonus |-> bonus,
            total        |-> MathRound(ability.baseDamage * 100 + spiritBonus + bonus * 100)]

\* hero.abilities[] of the loaded hero records: a1 as in the spec's example,
\* a2 without base damage, a3 without coefficient, a4 with two upgrades
CalcAbilities ==
  [a \in {"a1", "a2", "a3", "a4"} |->
     IF a = "a1"
     THEN [baseDamage |-> 50, spiritCoefficient |-> 50,
           upgrades |-> <<
              <<"+", "8", " ", "D", "a", "m", "a", "g", "e">>,
              <<"+", "1", "5", "%", " ", "R", "a", "n", "g", "e">>,
              <<"+", "2", "0", " ", "d", "p", "s">>>>]
     ELSE IF a = "a2"
     THEN [baseDamage |-> 0, spiritCoefficient |-> 50,
           upgrades |-> <<
              <<"+", "8", " ", "D", "a", "m", "a", "g", "e">>,
              <<"+", "1", "5", "%", " ", "R", "a", "n", "g", "e">>,
              <<"+", "2", "0", " ", "d", "p", "s">>>>]
     ELSE IF a = "a3"
     THEN [baseDamage |-> 35, spiritCoefficient |-> 0,
           upgrades |-> <<
              <<"+", "1", "2", "D", "P", "S">>,
              <<"+", "5", "%", " ", "d", "a", "m", "a", "g", "e">>,
              <<"x", " ", "+", "3", "0", " ", " ", "D", "A", "M", "A", "G", "E">>>>]
     ELSE [baseDamage |-> 120, spiritCoefficient |-> 25,
           upgrades |-> <<
              <<"-", "3", " ", "D", "a", "m", "a", "g", "e">>,
              <<"+", " ", "4", " ", "D", "a", "m", "a", "g", "e">>>>]]

(***************************************************************************)
(* AbilityPanel                                                            *)
(***************************************************************************)
\* this.upgrades = {}
EmptyUpgrades == [a \in {} |-> 0]

\* setHero: every ability id of the hero mapped to 0
setHeroUpgrades(h) == [a \in HeroAbilities(h) |-> 0]

\* data-level of the buttons renderUpgradeButtons draws, one per entry of
\* ability.upgrades: a1 carries the three tiers, b1 a single one
UpgradeTiers(abilityId) ==
  IF abilityId = "a1" THEN 1..Len(UpgradeCosts) ELSE {1}

\* upgrade button click handler: the level the clicked ability gets
upgradeClickLevel(ups, abilityId, level) ==
  LET currentLevel == IF abilityId \in DOMAIN ups THEN ups[abilityId] ELSE 0
  IN  IF currentLevel >= level THEN level - 1 ELSE level

\* a click handler that leaves the level alone when the new mapping would
\* cost more points than a build without items grants
upgradeClickRefusing(ups, abilityId, level) ==
  LET new == [a \in (DOMAIN ups) \cup {abilityId} |->
                IF a = abilityId THEN upgradeClickLevel(ups, abilityId, level) ELSE ups[a]]
  IN  IF calculateAbilityPointsUsed(new) > getAbilityPointsAvailable(0) THEN ups ELSE new

\* this.upgrades[abilityId] = ...
upgradeClick(ups, abilityId, level) ==
  [a \in (DOMAIN ups) \cup {abilityId} |->
     IF a = abilityId THEN upgradeClickLevel(ups, abilityId, level) ELSE ups[a]]

\* the value of a sum that took in costs[i] past the end of the table
\* (undefined): NaN, which no sum of costs equals
NaN == 0 - 1

\* total += costs[i]: NaN once an operand is undefined or NaN
AddCost(total, c) == IF total = NaN \/ c = NaN THEN NaN ELSE total + c

\* for (let i = 0; i < level; i++) total += costs[i], with no test of i
\* against costs.length
RECURSIVE LevelCostUnguarded(_, _, _)
LevelCostUnguarded(total, level, i) ==
  IF i < level
  THEN LevelCostUnguarded(
         AddCost(total, IF i < Len(UpgradeCosts) THEN UpgradeCosts[i + 1] ELSE NaN),
         level, i + 1)
  ELSE total

\* Object.values(this.upgrades).forEach(level => ...)
RECURSIVE SumLevelCostsUnguarded(_, _, _)
SumLevelCostsUnguarded(total, ups, ids) ==
  IF ids = {} THEN total
  ELSE LET a == CHOOSE a \in ids : TRUE
       IN  SumLevelCostsUnguarded(LevelCostUnguarded(total, ups[a], 0), ups, ids \ {a})

\* AbilityPanel.getTotalPointsUsed
getTotalPointsUsed(ups) == SumLevelCostsUnguarded(0, ups, DOMAIN ups)

(***************************************************************************)
(* storage.js and the build records of main.js.  A build record is the     *)
(* object getBuildData of main.js returns, after its JSON round trip: the  *)
(* hero id, the slots in the shape loadBuild tells apart, the upgrades.    *)
(***************************************************************************)
\* a record without an upgrades property
NoUpgrades == [absent |-> 0]

\* null: no saved build, no build in the URL
NoSavedBuild == [heroId |-> NoHero, slots |-> NoBuildData, upgrades |-> NoUpgrades]

\* main.js getBuildData: { heroId, slots: heroBuild.getBuildData().slots, upgrades }
appGetBuildData(hero, arr, ups) ==
  [heroId |-> hero, slots |-> getBuildData(arr), upgrades |-> ups]

\* heroBuilds[heroId] = { ...buildData, heroId, timestamp }
saveHeroBuild(store, heroId, buildData) ==
  [store EXCEPT ![heroId] = [buildData EXCEPT !.heroId = heroId]]

\* heroBuilds[heroId] || null
loadHeroBuild(store, heroId) == store[heroId]

\* autoSave: nothing without a current hero
autoSave(store, hero, arr, ups) ==
  IF hero = NoHero THEN store ELSE saveHeroBuild(store, hero, appGetBuildData(hero, arr, ups))

(***************************************************************************)
(* main.js: onHeroSelected, the part that decides slots and upgrades       *)
(***************************************************************************)
\* onHeroSelected that always starts from an empty build
heroSelectedSlotsEmpty(arr, saved) == resetSlots(arr)

\* if (savedBuild && savedBuild.slots) { reset(); loadBuild({slots}) } else reset()
heroSelectedSlots(arr, saved) ==
  IF saved # NoSavedBuild /\ saved.slots.format # "none"
  THEN loadBuildSlots(resetSlots(arr), saved.slots)
  ELSE resetSlots(arr)

\* setHero(hero); if (savedBuild && savedBuild.upgrades) setUpgrades(...)
heroSelectedUpgrades(h, saved) ==
  IF saved # NoSavedBuild /\ saved.upgrades # NoUpgrades
  THEN saved.upgrades
  ELSE setHeroUpgrades(h)

(***************************************************************************)
(* The builds init() may find in the URL or under deadlock_current_build.  *)
(***************************************************************************)
\* the slots the page clicks in the app-level specifications: the first
\* always-usable slot and the first gated one
AppIndices == {i \in UsedIndices : i = 0 \/ unlockThresholds[i + 1] = 3000}

\* the items the page clicks there: the first and the last of the catalogue
AppItems == {1, NumItems}

SharedBuilds ==
  { \* a build the page wrote: twelve slots, a level the buttons can set
    [heroId |-> "h1", slots |-> ArrayData(1, NoItem, NumSlots), upgrades |-> [a \in {"a1"} |-> 2]],
    \* a hand-made link: a short array and a level no button sets
    [heroId |-> "h2", slots |-> ArrayData(NumItems, NoItem, 2), upgrades |-> [a \in {"b1"} |-> 5]],
    \* a record without a hero id, which loadBuildFromData ignores
    [heroId |-> NoHero, slots |-> ArrayData(1, NoItem, NumSlots), upgrades |-> NoUpgrades] }

\* the argument of onStatsChange when the operation did not invoke it
NoCall == <<>>

\* StatPanel.stats = null
NoStats == [none |-> 0]

(***************************************************************************)
(* main.js recalculateStats, the function behind both HeroBuild callbacks. *)
(***************************************************************************)
\* a recalculation that also empties the slots it finds locked
recalculateStatsSlotsEvicting(arr) ==
  [k \in DOMAIN arr |-> IF isSlotLocked(arr, k) THEN NoItem ELSE arr[k]]

\* the slots after recalculateStats ran: it reads getAllItems() and calls
\* calculateStats, statPanel.setStats and abilityPanel.setSpiritPower, none
\* of which enters HeroBuild again
recalculateStatsSlots(arr) == arr

\* a recalculation that reads the slots as they were when the handler began
RecalculateStatsStale(hero, base, arr, ups) ==
  /\ stats' = IF hero = NoHero THEN stats
              ELSE calculateStats(base, FilterNonNull(slots, 0), ups)
  /\ heroBase' = IF hero = NoHero THEN heroBase ELSE baseStatsAfter(base, stats')

\* if (!this.currentHero) return; statPanel.setStats(calculateStats(...));
\* hero is this.currentHero and base its baseStats when the call is made
RecalculateStats(hero, base, arr, ups) ==
  /\ stats' = IF hero = NoHero THEN stats
              ELSE calculateStats(base, FilterNonNull(arr, 0), ups)
  /\ heroBase' = IF hero = NoHero THEN heroBase ELSE baseStatsAfter(base, stats')

(***************************************************************************)
(* Operations of HeroBuild, each one whole call, the onStatsChange         *)
(* callback included.                                                      *)
(***************************************************************************)
\* setItem that invokes onStatsChange before it assigns the slot
setItemObservedEarly(arr, index, item) ==
  IF setItemNotifies(arr, index, item) THEN arr ELSE NoCall

\* this.onStatsChange(this.getAllItems()), after this.slots[index] = item
setItemObserved(arr, index, item) ==
  IF setItemNotifies(arr, index, item) THEN setItemSlots(arr, index, item) ELSE NoCall

SetItem(index, item) ==
  /\ slots' = setItemSlots(slots, index, item)
  /\ result' = setItemResult(slots, index, item)
  /\ notified' = setItemNotifies(slots, index, item)
  /\ observed' = setItemObserved(slots, index, item)
  /\ IF notified' THEN RecalculateStats(currentHero, heroBase, slots', abilityUpgrades)
     ELSE UNCHANGED <<stats, heroBase>>
  /\ UNCHANGED <<lastCall, cost, targetSlot, captured, currentHero, upgrades, abilityUpgrades,
                 heroBuilds, pendingBuild>>

RemoveItem(index) ==
  /\ slots' = removeItemSlots(slots, index)
  /\ result' = NoResult
  /\ notified' = TRUE
  /\ observed' = slots'
  /\ RecalculateStats(currentHero, heroBase, slots', abilityUpgrades)
  /\ UNCHANGED <<lastCall, cost, targetSlot, captured, currentHero, upgrades, abilityUpgrades,
                 heroBuilds, pendingBuild>>

Reset ==
  /\ slots' = resetSlots(slots)
  /\ result' = NoResult
  /\ notified' = TRUE
  /\ observed' = slots'
  /\ RecalculateStats(currentHero, heroBase, slots', abilityUpgrades)
  /\ UNCHANGED <<lastCall, cost, targetSlot, captured, currentHero, upgrades, abilityUpgrades,
                 heroBuilds, pendingBuild>>

\* loadBuild ends without a call of onStatsChange
LoadBuild(buildData) ==
  /\ result' = NoResult
  /\ notified' = FALSE
  /\ observed' = NoCall
  /\ slots' = loadBuildSlots(slots, buildData)
  /\ UNCHANGED <<lastCall, cost, targetSlot, captured, appVars>>

Equip == \E index \in UsedIndices, item \in ItemIds : SetItem(index, item)
Unequip == \E index \in UsedIndices : RemoveItem(index)
Load == \E buildData \in LoadInputs : LoadBuild(buildData)

\* what the caller of getBuildData holds: nothing yet
NoCapture == [data |-> NoBuildData, overwrote |-> FALSE]

\* the state after the constructors, before a hero is selected
Init ==
  /\ slots = EmptySlots
  /\ cost = PositiveCatalog
  /\ result = NoResult
  /\ notified = FALSE
  /\ observed = NoCall
  /\ targetSlot = NoSlot
  /\ captured = NoCapture
  /\ currentHero = NoHero
  /\ heroBase = NoBaseStats
  /\ upgrades = EmptyUpgrades
  /\ abilityUpgrades = EmptyUpgrades
  /\ stats = NoStats
  /\ heroBuilds = [h \in HeroIds |-> NoSavedBuild]
  /\ pendingBuild = NoSavedBuild
  /\ lastCall = NoCall

Next == Equip \/ Unequip \/ Reset \/ Load

Spec == Init /\ [][Next]_vars

TypeOK ==
  /\ DOMAIN slots = SlotIndices
  /\ \A k \in DOMAIN slots : slots[k] \in ItemIds \cup {NoItem}

(***************************************************************************)
(* The same operations over a catalogue that may carry a negative cost.    *)
(***************************************************************************)
InitAnyCost ==
  /\ slots = EmptySlots
  /\ cost \in {PositiveCatalog, NegativeCatalog}
  /\ result = NoResult
  /\ notified = FALSE
  /\ observed = NoCall
  /\ targetSlot = NoSlot
  /\ captured = NoCapture
  /\ currentHero = NoHero
  /\ heroBase = NoBaseStats
  /\ upgrades = EmptyUpgrades
  /\ abilityUpgrades = EmptyUpgrades
  /\ stats = NoStats
  /\ heroBuilds = [h \in HeroIds |-> NoSavedBuild]
  /\ pendingBuild = NoSavedBuild
  /\ lastCall = NoCall

SpecAnyCost == InitAnyCost /\ [][Next]_vars

(***************************************************************************)
(* A caller that keeps what getBuildData returned and hands it back to     *)
(* loadBuild later, with any equip, unequip or reset in between.           *)
(***************************************************************************)
\* the slots this caller addresses: the first slot and the two gated slots
\* that unlock first
RoundTripIndices ==
  {i \in UsedIndices : i = 0 \/ (unlockThresholds[i + 1] > 0 /\ unlockThresholds[i + 1] <= 6000)}

Capture ==
  /\ captured' = [data |-> getBuildData(slots), overwrote |-> FALSE]
  /\ result' = NoResult
  /\ notified' = FALSE
  /\ observed' = NoCall
  /\ UNCHANGED <<lastCall, slots, cost, targetSlot, appVars>>

\* loadBuild(captured); `overwrote` records that the build it was loaded
\* over differed from the captured one
LoadCaptured ==
  /\ captured.data # NoBuildData
  /\ slots' = loadBuildSlots(slots, captured.data)
  /\ captured' = [captured EXCEPT !.overwrote = (slots # captured.data.slots)]
  /\ result' = NoResult
  /\ notified' = FALSE
  /\ observed' = NoCall
  /\ UNCHANGED <<lastCall, cost, targetSlot, appVars>>

EquipRoundTrip == \E index \in RoundTripIndices, item \in ItemIds : SetItem(index, item)
UnequipRoundTrip == \E index \in RoundTripIndices : RemoveItem(index)

NextRoundTrip == EquipRoundTrip \/ UnequipRoundTrip \/ Reset \/ Capture \/ LoadCaptured

SpecRoundTrip == Init /\ [][NextRoundTrip]_vars

(***************************************************************************)
(* The event handlers of the page: a click on a slot, on an item of the    *)
(* open shop, on a filled slot's remove button, on the shop's close button *)
(* or overlay, on the reset button, on an upgrade tier, on a hero card,    *)
(* and the continuation of loadBuildFromData.  Each is the whole handler:  *)
(* recalculateStats overwrites the stat panel's snapshot, so of the        *)
(* recalculations one handler runs only the last one shows in the state.   *)
(***************************************************************************)
\* slot click handler: a locked slot only shows a message; otherwise
\* onSlotClick -> onSlotClicked -> itemShop.show(slotInfo, equippedIds)
SlotClick(index) ==
  /\ targetSlot' = IF isSlotLocked(slots, index) THEN targetSlot ELSE index
  /\ result' = NoResult
  /\ notified' = FALSE
  /\ observed' = NoCall
  /\ UNCHANGED <<lastCall, slots, cost, captured, appVars>>

\* shop item click handler: onItemSelect(item, this.targetSlot), then hide();
\* onItemSelected returns at once without a slotInfo, else calls setItem and,
\* on success, recalculateStats and autoSave
ShopItemClick(item) ==
  /\ IF targetSlot = NoSlot
     THEN /\ result' = NoResult
          /\ notified' = FALSE
          /\ observed' = NoCall
          /\ UNCHANGED <<slots, stats, heroBase, heroBuilds>>
     ELSE /\ slots' = IF setItemNotifies(slots, targetSlot, item)
                      THEN recalculateStatsSlots(setItemSlots(slots, targetSlot, item))
                      ELSE setItemSlots(slots, targetSlot, item)
          /\ result' = setItemResult(slots, targetSlot, item)
          /\ notified' = setItemNotifies(slots, targetSlot, item)
          /\ observed' = setItemObserved(slots, targetSlot, item)
          /\ IF result' = RSuccess
             THEN /\ RecalculateStats(currentHero, heroBase, slots', abilityUpgrades)
                  /\ heroBuilds' = autoSave(heroBuilds, currentHero, slots', abilityUpgrades)
             ELSE UNCHANGED <<stats, heroBase, heroBuilds>>
  /\ targetSlot' = NoSlot
  /\ UNCHANGED <<lastCall, cost, captured, currentHero, upgrades, abilityUpgrades, pendingBuild>>

\* remove button handler; the button exists on a filled slot only:
\* removeItem(index), whose callback recalculates, then onItemRemove, which
\* recalculates again; autoSave is not called
RemoveClick(index) ==
  /\ slots[index] # NoItem
  /\ slots' = recalculateStatsSlots(removeItemSlots(slots, index))
  /\ result' = NoResult
  /\ notified' = TRUE
  /\ observed' = removeItemSlots(slots, index)
  /\ RecalculateStats(currentHero, heroBase, slots', abilityUpgrades)
  /\ UNCHANGED <<lastCall, cost, targetSlot, captured, currentHero, upgrades, abilityUpgrades,
                 heroBuilds, pendingBuild>>

\* ItemShop.hide
ShopHide ==
  /\ targetSlot' = NoSlot
  /\ result' = NoResult
  /\ notified' = FALSE
  /\ observed' = NoCall
  /\ UNCHANGED <<lastCall, slots, cost, captured, appVars>>

\* resetBuild: heroBuild.reset(), abilityPanel.setHero(currentHero),
\* getUpgrades(), recalculateStats(), autoSave(); without a current hero
\* setHero throws right after the reset
ResetClick ==
  /\ slots' = recalculateStatsSlots(resetSlots(slots))
  /\ result' = NoResult
  /\ notified' = TRUE
  /\ observed' = resetSlots(slots)
  /\ IF currentHero = NoHero
     THEN UNCHANGED <<upgrades, abilityUpgrades, stats, heroBase, heroBuilds>>
     ELSE /\ upgrades' = setHeroUpgrades(currentHero)
          /\ abilityUpgrades' = upgrades'
          /\ RecalculateStats(currentHero, heroBase, slots', abilityUpgrades')
          /\ heroBuilds' = autoSave(heroBuilds, currentHero, slots', abilityUpgrades')
  /\ UNCHANGED <<lastCall, cost, targetSlot, captured, currentHero, pendingBuild>>

\* upgrade button click handler, then onUpgradesChanged: abilityUpgrades is
\* the panel's mapping itself, recalculateStats(), autoSave()
UpgradeClick(abilityId, level) ==
  /\ currentHero # NoHero
  /\ abilityId \in HeroAbilities(currentHero)
  /\ upgrades' = upgradeClick(upgrades, abilityId, level)
  /\ abilityUpgrades' = upgrades'
  /\ RecalculateStats(currentHero, heroBase, slots, abilityUpgrades')
  /\ heroBuilds' = autoSave(heroBuilds, currentHero, slots, abilityUpgrades')
  /\ result' = NoResult
  /\ notified' = FALSE
  /\ observed' = NoCall
  /\ UNCHANGED <<lastCall, slots, cost, targetSlot, captured, currentHero, pendingBuild>>

\* onHeroSelected(hero): the saved build of the hero is loaded over a reset
\* build, else the build is reset; the panel's levels are the saved ones or
\* zero; abilityUpgrades is a copy of them; recalculateStats()
HeroSelected(h) ==
  /\ currentHero' = h
  /\ slots' = recalculateStatsSlots(heroSelectedSlots(slots, loadHeroBuild(heroBuilds, h)))
  /\ upgrades' = heroSelectedUpgrades(h, loadHeroBuild(heroBuilds, h))
  /\ abilityUpgrades' = upgrades'
  /\ RecalculateStats(h, HeroBaseStats[h], slots', abilityUpgrades')
  /\ result' = NoResult
  /\ notified' = TRUE
  /\ observed' = resetSlots(slots)
  /\ UNCHANGED <<lastCall, cost, targetSlot, captured, heroBuilds, pendingBuild>>

\* loadBuildFromData(buildData) once its hero record is fetched: nothing
\* without a heroId; else onHeroSelected(hero), then loadBuild({slots}) if
\* the record has slots, the record's upgrades if it has any, and
\* recalculateStats()
LoadBuildFromData(buildData) ==
  /\ pendingBuild' = NoSavedBuild
  /\ IF buildData.heroId = NoHero
     THEN /\ result' = NoResult
          /\ notified' = FALSE
          /\ observed' = NoCall
          /\ UNCHANGED <<slots, currentHero, upgrades, abilityUpgrades, stats, heroBase>>
     ELSE /\ currentHero' = buildData.heroId
          /\ slots' = recalculateStatsSlots(
                        loadBuildSlots(
                          heroSelectedSlots(slots, loadHeroBuild(heroBuilds, buildData.heroId)),
                          buildData.slots))
          /\ upgrades' = IF buildData.upgrades # NoUpgrades THEN buildData.upgrades
                         ELSE heroSelectedUpgrades(buildData.heroId,
                                                   loadHeroBuild(heroBuilds, buildData.heroId))
          /\ abilityUpgrades' = upgrades'
          /\ RecalculateStats(buildData.heroId, HeroBaseStats[buildData.heroId], slots',
                              abilityUpgrades')
          /\ result' = NoResult
          /\ notified' = TRUE
          /\ observed' = resetSlots(slots)
  /\ UNCHANGED <<lastCall, cost, targetSlot, captured, heroBuilds>>

ClickSlot == \E index \in UsedIndices : SlotClick(index)
ClickShopItem == \E item \in ItemIds : ShopItemClick(item)
ClickRemove == \E index \in UsedIndices : RemoveClick(index)

\* the builds the page itself writes and reads back are arrays
LoadSaved ==
  \E buildData \in {d \in LoadInputs : d.format # "legacy"} : LoadBuild(buildData)

NextUI == ClickSlot \/ ClickShopItem \/ ClickRemove \/ ShopHide \/ ResetClick \/ LoadSaved

SpecUI == Init /\ [][NextUI]_vars

(***************************************************************************)
(* The whole page: a hero is selected first (the build panel is hidden     *)
(* until then), and a build found in the URL or in storage is loaded when  *)
(* its hero record arrives.                                                *)
(***************************************************************************)
InitApp ==
  /\ slots = EmptySlots
  /\ cost = PositiveCatalog
  /\ result = NoResult
  /\ notified = FALSE
  /\ observed = NoCall
  /\ targetSlot = NoSlot
  /\ captured = NoCapture
  /\ currentHero = NoHero
  /\ heroBase = NoBaseStats
  /\ upgrades = EmptyUpgrades
  /\ abilityUpgrades = EmptyUpgrades
  /\ stats = NoStats
  /\ heroBuilds = [h \in HeroIds |-> NoSavedBuild]
  /\ pendingBuild \in SharedBuilds \cup {NoSavedBuild}
  /\ lastCall = NoCall

SelectHero == \E h \in HeroIds : HeroSelected(h)
LoadPending == pendingBuild # NoSavedBuild /\ LoadBuildFromData(pendingBuild)
AppClickSlot == \E index \in AppIndices : currentHero # NoHero /\ SlotClick(index)
AppClickShopItem == \E item \in AppItems : currentHero # NoHero /\ ShopItemClick(item)
AppClickRemove == \E index \in AppIndices : currentHero # NoHero /\ RemoveClick(index)
AppReset == currentHero # NoHero /\ ResetClick
ClickUpgrade ==
  \E abilityId \in UNION {HeroAbilities(h) : h \in HeroIds} :
    \E level \in UpgradeTiers(abilityId) : UpgradeClick(abilityId, level)

NextApp ==
  SelectHero \/ LoadPending \/ AppClickSlot \/ AppClickShopItem \/ AppClickRemove
    \/ AppReset \/ ClickUpgrade

SpecApp == InitApp /\ [][NextApp]_vars

(***************************************************************************)
(* calculator.js called directly: a caller hands an exported function its  *)
(* arguments, holds the returned value, and drops it before the next call. *)
(* The catalogue is drawn so that the spend of a category lands below, on  *)
(* and above the investment breakpoints.                                   *)
(***************************************************************************)
\* item.cost by category (weapon, vitality, spirit), one row per catalogue
CalcCosts ==
  << <<800, 799, 12000>>, <<799, 2400, 50000>>, <<2399, 5600, 800>>,
     <<5599, 11999, 2400>>, <<12000, 800, 5599>>, <<50000, 4000, 1200>> >>

CalcCatalogs ==
  {[id \in ItemIds |-> CalcCosts[k][((id - 1) % Len(ItemCategories)) + 1]] :
     k \in DOMAIN CalcCosts}

\* hero.baseStats of the callers: stamina positive, stamina 0, no stamina
CalcBaseStats ==
  {HeroBaseStats[h] : h \in HeroIds}
    \cup {[s \in (DOMAIN HeroBaseStats["h1"]) \ {"stamina"} |-> HeroBaseStats["h1"][s]]}

\* the longest items list handed to calculateStats
MaxCalcItems == 3

\* items: equipped items, repeated ids and null entries included
CalcItemLists == UNION {[1..n -> ItemIds \cup {NoItem}] : n \in 0..MaxCalcItems}

\* abilityUpgrades: every level 0, or some tiers bought
CalcUpgrades == {[a \in {"a1"} |-> 0], [a \in {"a1"} |-> 3]}

IsCall(fn) == DOMAIN lastCall # {} /\ lastCall.fn = fn

\* const stats = calculateStats(hero, items, abilityUpgrades)
CallCalculateStats(base, items, ups) ==
  /\ lastCall = NoCall
  /\ lastCall' = [fn        |-> "calculateStats",
                  base      |-> base,
                  items     |-> items,
                  upgrades  |-> ups,
                  ret       |-> calculateStats(base, items, ups),
                  baseAfter |-> baseStatsAfter(base, calculateStats(base, items, ups))]
  /\ UNCHANGED <<slots, cost, result, notified, observed, targetSlot, captured, appVars>>

\* totalSouls handed to getAbilityPointsAvailable: each milestone, the
\* totals next to it, and a total far past the table
SoulSamples ==
  {n \in UNION {{Milestones[m][1] - 1, Milestones[m][1], Milestones[m][1] + 1} :
                  m \in DOMAIN Milestones} : n >= 0}
    \cup {50000}

\* const points = getAbilityPointsAvailable(totalSouls)
CallGetAbilityPointsAvailable(totalSouls) ==
  /\ lastCall = NoCall
  /\ lastCall' = [fn         |-> "getAbilityPointsAvailable",
                  totalSouls |-> totalSouls,
                  ret        |-> getAbilityPointsAvailable(totalSouls)]
  /\ UNCHANGED <<slots, cost, result, notified, observed, targetSlot, captured, appVars>>

\* this.spiritPower of the callers: 0.5 and 0.25 of it end on and next to .5
SpiritSamples == {0, 2, 7, 9, 20}

\* const damage = calculateAbilityDamage(ability, this.spiritPower, currentLevel)
CallCalculateAbilityDamage(abilityId, spiritPower, upgradeLevel) ==
  /\ lastCall = NoCall
  /\ lastCall' = [fn           |-> "calculateAbilityDamage",
                  ability      |-> abilityId,
                  spiritPower  |-> spiritPower,
                  upgradeLevel |-> upgradeLevel,
                  ret          |-> calculateAbilityDamage(CalcAbilities[abilityId],
                                                          spiritPower, upgradeLevel)]
  /\ UNCHANGED <<slots, cost, result, notified, observed, targetSlot, captured, appVars>>

\* the caller is done with the returned value
Return ==
  /\ lastCall # NoCall
  /\ lastCall' = NoCall
  /\ UNCHANGED <<slots, cost, result, notified, observed, targetSlot, captured, appVars>>

InitCalc ==
  /\ slots = EmptySlots
  /\ cost \in CalcCatalogs
  /\ result = NoResult
  /\ notified = FALSE
  /\ observed = NoCall
  /\ targetSlot = NoSlot
  /\ captured = NoCapture
  /\ currentHero = NoHero
  /\ heroBase = NoBaseStats
  /\ upgrades = EmptyUpgrades
  /\ abilityUpgrades = EmptyUpgrades
  /\ stats = NoStats
  /\ heroBuilds = [h \in HeroIds |-> NoSavedBuild]
  /\ pendingBuild = NoSavedBuild
  /\ lastCall = NoCall

StatsCall ==
  \E base \in CalcBaseStats, items \in CalcItemLists, ups \in CalcUpgrades :
    CallCalculateStats(base, items, ups)

PointsCall == \E totalSouls \in SoulSamples : CallGetAbilityPointsAvailable(totalSouls)

DamageCall ==
  \E abilityId \in DOMAIN CalcAbilities, spiritPower \in SpiritSamples,
     upgradeLevel \in 0..(Len(UpgradeCosts) + 1) :
    CallCalculateAbilityDamage(abilityId, spiritPower, upgradeLevel)

NextCalc == StatsCall \/ PointsCall \/ DamageCall \/ Return

SpecCalc == InitCalc /\ [][NextCalc]_vars

(***************************************************************************)
(* Properties.                                                             *)
(***************************************************************************)
\* no two non-empty slots of arr hold the same identifier
NoDuplicateIds(arr) ==
  \A i, j \in DOMAIN arr : (i # j /\ arr[i] # NoItem) => arr[i] # arr[j]

\* the indices of the occupied slots
OccupiedIndices(arr) == {k \in DOMAIN arr : arr[k] # NoItem}

\* the sum of cost over a set of slot indices, one summand per slot
RECURSIVE SumCostOver(_, _)
SumCostOver(arr, indices) ==
  IF indices = {} THEN 0
  ELSE LET k == CHOOSE k \in indices : TRUE
       IN  cost[arr[k]] + SumCostOver(arr, indices \ {k})

\* arr and other are the same array except possibly at index
SameExceptAt(arr, other, index) ==
  /\ DOMAIN other = DOMAIN arr
  /\ \A j \in DOMAIN arr : j # index => other[j] = arr[j]

\* C1 as stated: in every reachable state, whatever sequence of equip,
\* unequip, reset and load produced it, no two non-empty slots hold items
\* with the same identifier.
C1_NoDuplicatesEver == NoDuplicateIds(slots)

\* C1 as amended: equip, unequip and reset never take a build without a
\* repeated identifier to one with a repeated identifier; the only step that
\* does is a load, which stores what it is given without any test.
C1_OnlyLoadBreaksUniqueness ==
  [][(slots' # slots /\ NoDuplicateIds(slots) /\ ~NoDuplicateIds(slots'))
       => \E buildData \in LoadInputs : LoadBuild(buildData)]_vars

\* an equip has just been refused as a duplicate and the slots are unique
C1_Witness ==
  /\ result = RDuplicate
  /\ NoDuplicateIds(slots)
  /\ Cardinality(OccupiedIndices(slots)) >= 2

\* C2 as stated: in every reachable state a locked slot holds no item.
C2_LockedSlotEmpty ==
  \A i \in DOMAIN slots : isSlotLocked(slots, i) => slots[i] = NoItem

\* C2 as amended: no equip, unequip or reset puts an item into a slot that
\* is locked when the operation starts (only a load does); an item already
\* in a slot stays there when the slot becomes locked.
C2_LockedSlotFilledOnlyByLoad ==
  [][\A i \in SlotIndices :
        (slots'[i] # slots[i] /\ slots'[i] # NoItem /\ isSlotLocked(slots, i))
          => \E buildData \in LoadInputs : LoadBuild(buildData)]_vars

\* an equip has just been refused for the lock while a gated slot that is
\* locked still holds the item placed in it earlier
C2_Witness ==
  /\ result = RFalse
  /\ \E i \in SlotIndices : isSlotLocked(slots, i) /\ slots[i] # NoItem

\* C3: equip on a slot that is locked at the time of the call returns the
\* sentinel false, which is neither the success nor the duplicate result,
\* leaves every slot unchanged and does not invoke the change callback.
C3_LockedEquipRejected ==
  \A index \in SlotIndices, item \in ItemIds :
    isSlotLocked(slots, index) =>
      /\ setItemResult(slots, index, item) = RFalse
      /\ setItemResult(slots, index, item) \notin {RSuccess, RDuplicate}
      /\ setItemSlots(slots, index, item) = slots
      /\ ~setItemNotifies(slots, index, item)

\* an equip on the locked slot 9 has just returned false without a callback
C3_Witness ==
  /\ result = RFalse
  /\ notified = FALSE
  /\ slots[9] = NoItem
  /\ \A i \in SlotIndices : unlockThresholds[i + 1] > 0 => isSlotLocked(slots, i)

\* C4 as stated: equip of an identifier already present in some slot returns
\* the duplicate rejection for every target index 0..11, whatever the lock
\* state of the target, and leaves the slots unchanged.
C4_DuplicateAlwaysReported ==
  \A index \in SlotIndices, item \in ItemIds :
    hasItem(slots, item) =>
      /\ setItemResult(slots, index, item) = RDuplicate
      /\ setItemSlots(slots, index, item) = slots

\* C4 as amended: equip of an identifier already present in some slot leaves
\* the slots unchanged and returns the duplicate rejection for every target
\* index that is not locked at the time of the call (the slot that holds the
\* item included); on a locked target it returns the sentinel false.
C4_DuplicateReportedUnlessLocked ==
  \A index \in SlotIndices, item \in ItemIds :
    hasItem(slots, item) =>
      /\ setItemSlots(slots, index, item) = slots
      /\ ~isSlotLocked(slots, index) => setItemResult(slots, index, item) = RDuplicate
      /\ isSlotLocked(slots, index) => setItemResult(slots, index, item) = RFalse

\* an equip has just been refused as a duplicate while slot 9 is unlocked
\* and slot 11 is locked
C4_Witness ==
  /\ result = RDuplicate
  /\ ~isSlotLocked(slots, 9)
  /\ isSlotLocked(slots, 11)

\* C5: equip(i, item) on a slot that is not locked, with an identifier that
\* is in no slot, returns success whether slot i was empty or occupied;
\* afterwards slot i holds that item and every other slot is unchanged.
C5_EquipOverwrites ==
  \A index \in SlotIndices, item \in ItemIds :
    (~isSlotLocked(slots, index) /\ ~hasItem(slots, item)) =>
      /\ setItemResult(slots, index, item) = RSuccess
      /\ setItemSlots(slots, index, item)[index] = item
      /\ SameExceptAt(slots, setItemSlots(slots, index, item), index)

\* a successful equip has just left slot 9 as the only occupied slot with a
\* total below its threshold: it replaced an occupant of slot 9 that cost at
\* least 3000
C5_Witness ==
  /\ result = RSuccess
  /\ OccupiedIndices(slots) = {9}
  /\ isSlotLocked(slots, 9)

\* C6 as stated: isLocked(9) iff totalSouls < 3000, isLocked(10) iff
\* totalSouls < 6000, isLocked(11) iff totalSouls < 9000, and isLocked(i) is
\* false for every i in 0..8, for every item cost that is accepted.
C6_BaseSlotsNeverLocked ==
  /\ isSlotLocked(slots, 9) <=> getTotalSouls(slots) < 3000
  /\ isSlotLocked(slots, 10) <=> getTotalSouls(slots) < 6000
  /\ isSlotLocked(slots, 11) <=> getTotalSouls(slots) < 9000
  /\ \A i \in 0..8 : ~isSlotLocked(slots, i)

\* C6 as amended: the three gated slots as stated; isLocked(i) for i in 0..8
\* is true iff totalSouls < 0, so it is false whenever no negative cost has
\* made the total negative.
C6_LockedIffBelowThreshold ==
  /\ isSlotLocked(slots, 9) <=> getTotalSouls(slots) < 3000
  /\ isSlotLocked(slots, 10) <=> getTotalSouls(slots) < 6000
  /\ isSlotLocked(slots, 11) <=> getTotalSouls(slots) < 9000
  /\ \A i \in 0..8 : isSlotLocked(slots, i) <=> getTotalSouls(slots) < 0

\* an item of negative cost is equipped and every slot is locked
C6_Witness ==
  /\ getTotalSouls(slots) < 0
  /\ \A i \in SlotIndices : isSlotLocked(slots, i)

\* C7: totalSouls() equals the sum of cost over the occupied slots, and is
\* 0 when every slot is empty.
C7_TotalIsSumOverOccupied ==
  /\ getTotalSouls(slots) = SumCostOver(slots, OccupiedIndices(slots))
  /\ OccupiedIndices(slots) = {} => getTotalSouls(slots) = 0

\* slots 0 and 1 hold the same item (loaded) and its cost counts twice
C7_Witness ==
  /\ slots[0] = 1
  /\ slots[1] = 1
  /\ getTotalSouls(slots) = 2 * cost[1]

\* C8: unequip(i) empties slot i, also when slot i is locked, and leaves
\* every other slot unchanged, the gated slots that it leaves locked
\* included.
C8_UnequipClearsOnlyItsSlot ==
  \A index \in SlotIndices :
    /\ removeItemSlots(slots, index)[index] = NoItem
    /\ SameExceptAt(slots, removeItemSlots(slots, index), index)

\* a removal has just run and slot 9 still holds its item although the
\* total is now below 3000
C8_Witness ==
  /\ result = NoResult
  /\ notified = TRUE
  /\ slots[9] # NoItem
  /\ isSlotLocked(slots, 9)

\* C9: every successful equip from the shop places its item while the
\* target slot is unlocked: the lock test uses the total at the time of the
\* equip call, not at the time the shop was opened.
C9_EquipOnlyWhileUnlocked ==
  [][\A item \in ItemIds :
        (result' = RSuccess /\ ShopItemClick(item)) =>
          /\ targetSlot \in SlotIndices
          /\ ~isSlotLocked(slots, targetSlot)
          /\ slots'[targetSlot] = item]_vars

\* the shop was opened for a slot that was unlocked, the slot became locked,
\* and the item click has just been refused for the lock
C9_Witness ==
  /\ result = RFalse
  /\ targetSlot = NoSlot
  /\ \E i \in SlotIndices : isSlotLocked(slots, i) /\ slots[i] = NoItem

\* C10: the slot array has exactly 12 positions in every reachable state
\* (loads of arrays of 2, 12 and 13 entries included), and no equip or
\* unequip on an index 0..11 changes that.
C10_TwelveSlots ==
  /\ ArrayLen(slots) = NumSlots
  /\ DOMAIN slots = SlotIndices
  /\ \A index \in SlotIndices, item \in ItemIds :
       DOMAIN setItemSlots(slots, index, item) = SlotIndices
  /\ \A index \in SlotIndices : DOMAIN removeItemSlots(slots, index) = SlotIndices

\* a load has just stored an item at index 11, the last position
C10_Witness ==
  /\ result = NoResult
  /\ notified = FALSE
  /\ slots[NumSlots - 1] # NoItem
  /\ ArrayLen(slots) = NumSlots

\* C11: whatever the slots held, a reset leaves all twelve of them empty, so
\* that the total is 0 and the slots 9, 10 and 11 are locked, and it invokes
\* the change callback.
C11_ResetEmptiesAndNotifies ==
  [][Reset =>
       /\ slots' = EmptySlots
       /\ getTotalSouls(slots') = 0
       /\ \A i \in SlotIndices : unlockThresholds[i + 1] > 0 => isSlotLocked(slots', i)
       /\ notified'
       /\ observed' = EmptySlots]_vars

\* a reset has just run: the callback was handed twelve empty slots
C11_Witness ==
  /\ slots = EmptySlots
  /\ notified
  /\ observed = EmptySlots
  /\ result = NoResult
  /\ \A i \in SlotIndices : unlockThresholds[i + 1] > 0 => isSlotLocked(slots, i)

\* C12: handing loadBuild a value getBuildData returned earlier restores
\* the twelve slots exactly as they were when it was captured, whatever was
\* equipped, removed or reset between the capture and the load.
C12_RoundTripRestores ==
  [][LoadCaptured =>
       /\ slots' = captured.data.slots
       /\ DOMAIN slots' = SlotIndices]_vars

\* a captured non-empty build has been loaded back over a different build
C12_Witness ==
  /\ captured.data # NoBuildData
  /\ captured.overwrote
  /\ slots = captured.data.slots
  /\ slots # EmptySlots

\* legacy builds with all four categories, an empty entry inside one of them
\* and two entries in another
LegacyFull(x, y, z) ==
  [format |-> "legacy",
   slots  |-> [c \in {"weapon", "vitality", "spirit", "flex"} |->
                 IF c = "weapon" THEN <<x>>
                 ELSE IF c = "vitality" THEN <<NoItem, y>>
                 ELSE IF c = "spirit" THEN <<z, x>>
                 ELSE <<y>>]]

LegacySamples ==
  {d \in LoadInputs : d.format = "legacy"}
    \cup {LegacyFull(x, NumItems, z) : x \in LoadEntries, z \in LoadEntries}

\* the entries of one category, none if the data has no such category
CategoryEntries(groups, category) ==
  IF category \in DOMAIN groups THEN groups[category] ELSE <<>>

\* the entries of weapon, vitality, spirit, flex, one after the other
LegacyEntriesInOrder(groups) ==
  CategoryEntries(groups, "weapon") \o CategoryEntries(groups, "vitality")
    \o CategoryEntries(groups, "spirit") \o CategoryEntries(groups, "flex")

\* loadBuild handed a persisted build of the legacy format
LoadLegacy == \E buildData \in LegacySamples : LoadBuild(buildData)

\* legacy loads over what earlier loads, unequips and resets left
NextLegacy == LoadLegacy \/ Unequip \/ Reset

SpecLegacy == Init /\ [][NextLegacy]_vars

\* C13: a legacy load puts entry j (counted from 0) of weapon, vitality,
\* spirit, flex taken in that order into slot j; an empty entry uses up its
\* index and leaves that slot as it was, entries past index 11 are dropped,
\* and neither the lock of slot j nor a duplicate elsewhere stops it.
C13_LegacyLoadFillsInOrder ==
  \A d \in LegacySamples :
    LET entries == LegacyEntriesInOrder(d.slots)
        loaded  == loadBuildSlots(slots, d)
    IN  /\ DOMAIN loaded = SlotIndices
        /\ \A j \in SlotIndices :
             loaded[j] = IF j < Len(entries) /\ entries[j + 1] # NoItem
                         THEN entries[j + 1]
                         ELSE slots[j]

\* a load has just run and left an item in slot 11 while that slot is
\* locked, the same item in slot 0, and slot 1 still occupied
C13_Witness ==
  /\ observed = NoCall
  /\ result = NoResult
  /\ slots[0] # NoItem
  /\ slots[NumSlots - 1] = slots[0]
  /\ slots[1] # NoItem
  /\ isSlotLocked(slots, NumSlots - 1)

\* C14 as stated: every operation that changes a slot, a load included,
\* invokes the change callback before it returns, and the callback is handed
\* the slots as the operation leaves them.
C14_EveryChangeNotifies ==
  [][slots' # slots => (notified' /\ observed' = slots')]_vars

\* C14 as amended: a successful equip, an unequip and a reset invoke the
\* change callback after their assignment, so that it is handed the slots
\* as the operation leaves them; a load never invokes it, whether it changes
\* a slot or not.
C14_ChangeNotifiesExceptLoad ==
  [][/\ (result' = RSuccess \/ Unequip \/ Reset) => (notified' /\ observed' = slots')
     /\ notified' => ~Load]_vars

\* a successful equip has just run and its callback saw the new item
C14_Witness ==
  /\ result = RSuccess
  /\ notified
  /\ observed = slots
  /\ slots # EmptySlots

\* C15: after every handler that runs while a hero is selected, the snapshot
\* the stat panel holds is calculateStats of the current hero, the current
\* non-empty slots and the current upgrade levels.
C15_SnapshotIsCurrent ==
  currentHero # NoHero =>
    /\ stats = calculateStats(heroBase, FilterNonNull(slots, 0), abilityUpgrades)
    /\ abilityUpgrades = upgrades

\* a hero with two items equipped and an upgraded ability: the snapshot
\* carries the souls of both items
C15_Witness ==
  /\ currentHero = "h1"
  /\ Len(FilterNonNull(slots, 0)) = 2
  /\ upgrades["a1"] = 3
  /\ stats # NoStats
  /\ stats["totalSouls"] = getTotalSouls(slots)
  /\ stats["totalSouls"] > 3000

C17_SelectionEmptiesBuild ==
  [][SelectHero => slots' = EmptySlots]_vars

\* C17 as amended: right after a hero is selected the slots are the twelve
\* slots last auto-saved for that hero, and all empty when nothing was saved
\* for it; in both cases nothing of what was equipped before remains.
C17_SelectionRestoresSavedBuild ==
  [][\A h \in HeroIds :
       (currentHero' = h /\ notified' /\ HeroSelected(h)) =>
         slots' = IF heroBuilds[h] = NoSavedBuild THEN EmptySlots
                  ELSE heroBuilds[h].slots.slots]_vars

\* a hero has just been selected and its saved, non-empty build is back in
\* the slots: the reset's callback saw them empty before the load
C17_Witness ==
  /\ currentHero # NoHero
  /\ notified
  /\ observed = EmptySlots
  /\ slots # EmptySlots
  /\ heroBuilds[currentHero] # NoSavedBuild
  /\ slots = heroBuilds[currentHero].slots.slots
  /\ pendingBuild = NoSavedBuild

\* C18: while a hero is selected, every ability of that hero has an upgrade
\* level, and the level is an integer from 0 to 3, whether the state was
\* reached by selecting a hero, clicking tiers, resetting, or loading a
\* saved or shared build.
C18_LevelsInRange ==
  currentHero # NoHero =>
    \A a \in HeroAbilities(currentHero) :
      /\ a \in DOMAIN upgrades
      /\ upgrades[a] \in 0..Len(UpgradeCosts)

\* C19: a click on an upgrade tier is never refused, whatever the points the
\* build grants: a click on tier n of an ability always changes its level,
\* to n when the level was below n and to n-1 otherwise.  (That states with
\* more points used than available are reachable is the witness.)
C19_TierClickNeverRefused ==
  [][\A a \in UNION {HeroAbilities(h) : h \in HeroIds} :
       \A level \in UpgradeTiers(a) :
         (UpgradeClick(a, level) /\ a \in DOMAIN upgrades)
           => /\ upgrades'[a] # upgrades[a]
              /\ upgrades'[a] = IF upgrades[a] < level THEN level ELSE level - 1
              /\ abilityUpgrades' = upgrades']_vars

\* level 3 on one ability with an empty build: 8 points used, 1 available
C19_Witness ==
  /\ currentHero = "h1"
  /\ slots = EmptySlots
  /\ upgrades["a1"] = 3
  /\ abilityUpgrades = upgrades
  /\ calculateAbilityPointsUsed(abilityUpgrades) = 8
  /\ getAbilityPointsAvailable(getTotalSouls(slots)) = 1

NoItemsIn(items) == \A k \in DOMAIN items : items[k] = NoItem

\* C21: calculateStats with no equipped items and every upgrade level 0
\* returns every base stat of the hero with its base value (stamina
\* included), the nine derived accumulator fields 0, and totalSouls 0.
C21_BaseStatsUnmodified ==
  (IsCall("calculateStats") /\ NoItemsIn(lastCall.items)
     /\ \A a \in DOMAIN lastCall.upgrades : lastCall.upgrades[a] = 0) =>
    /\ \A s \in DOMAIN lastCall.base : lastCall.ret[s] = lastCall.base[s]
    /\ \A s \in ZeroedStats : lastCall.ret[s] = 0
    /\ lastCall.ret["totalSouls"] = 0


\* the souls spent on the items of one category in a list of items
RECURSIVE CategorySpend(_, _)
CategorySpend(items, category) ==
  IF items = <<>> THEN 0
  ELSE (IF Head(items) # NoItem /\ ItemCategory(Head(items)) = category
        THEN cost[Head(items)] ELSE 0)
         + CategorySpend(Tail(items), category)

Breakpoints == <<800, 2400, 5600, 12000>>

\* the bonus of the highest breakpoint not exceeding the spend, 0 below 800
BonusAt(spend, table) ==
  LET met == {i \in DOMAIN Breakpoints : Breakpoints[i] <= spend}
  IN  IF met = {} THEN 0 ELSE table[CHOOSE i \in met : \A j \in met : j <= i]

\* C22: in every snapshot the bonus of each investment track is that of the
\* highest breakpoint of 800, 2400, 5600, 12000 not exceeding the souls
\* spent on items of that category, 0 below 800: weapon 0.04/0.10/0.18/0.28
\* (in hundredths), vitality 50/125/225/375, spirit 4/12/24/40; a track is
\* determined by the spend of its own category alone.
C22_TrackBonusByBreakpoint ==
  IsCall("calculateStats") =>
    LET bonuses == lastCall.ret["investmentBonuses"]
    IN  /\ bonuses.weapon.weaponDamage
             = BonusAt(CategorySpend(lastCall.items, "weapon"), <<4, 10, 18, 28>>)
        /\ bonuses.vitality.health
             = BonusAt(CategorySpend(lastCall.items, "vitality"), <<50, 125, 225, 375>>)
        /\ bonuses.spirit.spiritPower
             = BonusAt(CategorySpend(lastCall.items, "spirit"), <<4, 12, 24, 40>>)

\* a call has returned for a weapon spend of exactly 800, a vitality spend
\* of 799 and a spirit spend of 12000: first tier, no bonus, top tier
C22_Witness ==
  /\ IsCall("calculateStats")
  /\ CategorySpend(lastCall.items, "weapon") = 800
  /\ CategorySpend(lastCall.items, "vitality") = 799
  /\ CategorySpend(lastCall.items, "spirit") = 12000
  /\ lastCall.ret["investmentBonuses"].weapon.weaponDamage = 4
  /\ lastCall.ret["investmentBonuses"].vitality.health = 0
  /\ lastCall.ret["investmentBonuses"].spirit.spiritPower = 40


\* the sum of one stat modifier over the items of a list
RECURSIVE ItemStatSum(_, _)
ItemStatSum(items, stat) ==
  IF items = <<>> THEN 0
  ELSE (IF Head(items) # NoItem /\ stat \in DOMAIN ItemStats(Head(items))
        THEN ItemStats(Head(items))[stat] ELSE 0)
         + ItemStatSum(Tail(items), stat)

\* C23: in every snapshot health is the base health plus the health
\* modifiers of all items plus the vitality-track bonus, weaponDamage is the
\* items' weaponDamage modifiers plus the weapon-track bonus, spiritPower is
\* the items' spiritPower modifiers plus the spirit-track bonus, and the
\* three bonuses are carried separately under investmentBonuses.
C23_TotalsAreItemsPlusTrackBonus ==
  IsCall("calculateStats") =>
    LET ret     == lastCall.ret
        bonuses == ret["investmentBonuses"]
    IN  /\ DOMAIN bonuses = {"weapon", "vitality", "spirit"}
        /\ ret["health"] = lastCall.base["health"] + ItemStatSum(lastCall.items, "health")
                             + bonuses.vitality.health
        /\ ret["weaponDamage"] = ItemStatSum(lastCall.items, "weaponDamage")
                                   + bonuses.weapon.weaponDamage
        /\ ret["spiritPower"] = ItemStatSum(lastCall.items, "spiritPower")
                                  + bonuses.spirit.spiritPower

\* a call has returned for items of all three categories, each with a
\* modifier of its track's stat and each track past its first breakpoint
C23_Witness ==
  /\ IsCall("calculateStats")
  /\ ItemStatSum(lastCall.items, "health") > 0
  /\ ItemStatSum(lastCall.items, "weaponDamage") > 0
  /\ ItemStatSum(lastCall.items, "spiritPower") > 0
  /\ lastCall.ret["investmentBonuses"].vitality.health > 0
  /\ lastCall.ret["investmentBonuses"].weapon.weaponDamage > 0
  /\ lastCall.ret["investmentBonuses"].spirit.spiritPower > 0
  /\ lastCall.ret["health"] > lastCall.base["health"] + ItemStatSum(lastCall.items, "health")


\* C24: in every state of the page with a hero selected, the totalSouls
\* that calculateStats reports for the occupied slots of the build, and the
\* one in the displayed snapshot, equal the build's own getTotalSouls(),
\* the total the lock test of the slots reads.
C24_SnapshotTotalIsBuildTotal ==
  currentHero # NoHero =>
    /\ calculateStats(heroBase, FilterNonNull(slots, 0), abilityUpgrades)["totalSouls"]
         = getTotalSouls(slots)
    /\ stats["totalSouls"] = getTotalSouls(slots)

\* the build holds one item in two slots, slot 9 among them, both counted
\* by the snapshot, and that total keeps slot 9 locked
C24_Witness ==
  /\ currentHero # NoHero
  /\ ~NoDuplicateIds(slots)
  /\ slots[9] # NoItem
  /\ stats["totalSouls"] = 2 * cost[slots[9]]
  /\ stats["totalSouls"] = getTotalSouls(slots)
  /\ isSlotLocked(slots, 9)


\* the cost to reach a level: the sum of the first level entries of 1, 2, 5
CostToReach(level) ==
  IF level <= 0 THEN 0 ELSE IF level = 1 THEN 1 ELSE IF level = 2 THEN 3 ELSE 8

\* the sum of CostToReach over the abilities of an upgrade state
RECURSIVE PointsOf(_, _)
PointsOf(ups, ids) ==
  IF ids = {} THEN 0
  ELSE LET a == CHOOSE a \in ids : TRUE
       IN  CostToReach(ups[a]) + PointsOf(ups, ids \ {a})

\* C25: for the upgrade state of every reachable state of the page, the
\* points used that calculateAbilityPointsUsed and
\* AbilityPanel.getTotalPointsUsed report are the sum over the abilities of
\* the cost to reach the ability's level: 0, 1, 3, 8 for levels 0, 1, 2, 3.
C25_PointsUsedIsSumOfTierCosts ==
  /\ calculateAbilityPointsUsed(abilityUpgrades) = PointsOf(abilityUpgrades, DOMAIN abilityUpgrades)
  /\ getTotalPointsUsed(upgrades) = PointsOf(upgrades, DOMAIN upgrades)


\* the milestone table as pairs of a soul threshold and a point total
PointsTable ==
  {<<0, 1>>, <<1000, 2>>, <<2500, 3>>, <<4000, 4>>, <<6000, 5>>, <<8000, 6>>,
   <<10000, 7>>, <<13000, 8>>, <<16000, 9>>, <<20000, 10>>, <<25000, 11>>, <<30000, 12>>}

\* the point total of the highest threshold not exceeding totalSouls
PointsAt(totalSouls) ==
  LET met  == {p \in PointsTable : p[1] <= totalSouls}
      best == CHOOSE p \in met : \A q \in met : q[1] <= p[1]
  IN  best[2]

\* C26: for every totalSouls >= 0, getAbilityPointsAvailable returns the
\* point total of the highest milestone threshold not exceeding totalSouls
\* (1 at 0, 2 at 2499, 3 at 2500); the result never exceeds 12 and is not
\* below the result for any smaller total.
C26_PointsAvailableByMilestone ==
  (IsCall("getAbilityPointsAvailable") /\ lastCall.totalSouls >= 0) =>
    /\ lastCall.ret = PointsAt(lastCall.totalSouls)
    /\ lastCall.ret <= 12
    /\ \A n \in SoulSamples :
         n <= lastCall.totalSouls => getAbilityPointsAvailable(n) <= lastCall.ret

\* a call with 2499 souls, one below a milestone, has returned 2
C26_Witness ==
  /\ IsCall("getAbilityPointsAvailable")
  /\ lastCall.totalSouls = 2499
  /\ lastCall.ret = 2


\* the "+N Damage/DPS" bonus each upgrade text of the sampled abilities
\* carries, read off the texts by hand: 0 for a text without the pattern
TierBonuses ==
  [a \in DOMAIN CalcAbilities |->
     IF a \in {"a1", "a2"} THEN <<8, 0, 20>>
     ELSE IF a = "a3" THEN <<12, 0, 30>>
     ELSE <<0, 0>>]

\* the bonuses of the tiers 1..level
RECURSIVE BonusUpTo(_, _)
BonusUpTo(bonuses, level) ==
  IF level <= 0 THEN 0
  ELSE (IF level \in DOMAIN bonuses THEN bonuses[level] ELSE 0)
         + BonusUpTo(bonuses, level - 1)

\* the integer nearest to a non-negative value in hundredths, halves upwards
Nearest(hundredths) ==
  CHOOSE n \in 0..((hundredths \div 100) + 1) :
    n * 100 - 50 <= hundredths /\ hundredths < n * 100 + 50

\* C27: calculateAbilityDamage returns null for an ability without base
\* damage; otherwise base is the base damage, upgradeBonus the sum of the
\* "+N Damage/DPS" bonuses of the tiers 1..upgradeLevel (0 for a tier
\* without the pattern and for every tier above the level), spiritBonus is
\* round(spiritPower x coefficient) and total is
\* round(base + spiritPower x coefficient + upgradeBonus), the coefficient 0
\* when absent.
C27_AbilityDamage ==
  IsCall("calculateAbilityDamage") =>
    LET ability == CalcAbilities[lastCall.ability]
        scaled  == lastCall.spiritPower * ability.spiritCoefficient
        bonus   == BonusUpTo(TierBonuses[lastCall.ability], lastCall.upgradeLevel)
    IN  IF ability.baseDamage = 0 THEN lastCall.ret = NoDamage
        ELSE /\ lastCall.ret # NoDamage
             /\ lastCall.ret.base = ability.baseDamage
             /\ lastCall.ret.upgradeBonus = bonus
             /\ lastCall.ret.spiritBonus = Nearest(scaled)
             /\ lastCall.ret.total = Nearest(ability.baseDamage * 100 + scaled + bonus * 100)

\* the spec's example has been computed: base 50, coefficient 0.5, spirit
\* power 20, level 0
C27_Witness ==
  /\ IsCall("calculateAbilityDamage")
  /\ CalcAbilities[lastCall.ability].baseDamage = 50
  /\ CalcAbilities[lastCall.ability].spiritCoefficient = 50
  /\ lastCall.spiritPower = 20
  /\ lastCall.upgradeLevel = 0
  /\ lastCall.ret = [base |-> 50, spiritBonus |-> 10, upgradeBonus |-> 0, total |-> 60]


\* C28: from a build in which no two occupied slots share an identifier,
\* an equip of any item on any index 0..11 (successful, refused as locked or
\* refused as a duplicate), an unequip of any index and a reset each leave a
\* build in which no two occupied slots share an identifier.
C28_OperationsPreserveUniqueness ==
  NoDuplicateIds(slots) =>
    /\ \A index \in SlotIndices, item \in ItemIds :
         NoDuplicateIds(setItemSlots(slots, index, item))
    /\ \A index \in SlotIndices : NoDuplicateIds(removeItemSlots(slots, index))
    /\ NoDuplicateIds(resetSlots(slots))

\* an equip of the one item the build holds has just been refused as a
\* duplicate, and the build still holds it once
C28_Witness ==
  /\ result = RDuplicate
  /\ Cardinality(OccupiedIndices(slots)) = 1
  /\ NoDuplicateIds(slots)
  /\ \A index \in SlotIndices :
       \A k \in OccupiedIndices(slots) : setItemSlots(slots, index, slots[k]) = slots


\* C29: when the page loads a shared or stored build, the slots afterwards
\* are what the build's data alone gives: its items at their indices and
\* every other slot empty, whatever the slots and the hero's saved build
\* held before (array data of any length up to 12, legacy data).
C29_LoadDeterminedByData ==
  [][(pendingBuild # NoSavedBuild /\ pendingBuild.heroId # NoHero
        /\ pendingBuild' = NoSavedBuild)
       => slots' = loadBuildSlots(EmptySlots, pendingBuild.slots)]_vars


\* a change the user makes to the build of the selected character: an item
\* equipped from the shop, an item removed with the slot's remove button, an
\* upgrade tier clicked, the build reset
UserChangedBuild ==
  \/ AppClickShopItem /\ result' = RSuccess
  \/ AppClickRemove
  \/ ClickUpgrade
  \/ AppReset

\* C30: after every change the user makes to the build of the selected
\* character (an item equipped, an item removed with the slot's remove
\* button, an upgrade tier clicked, the build reset), the build saved for
\* that character holds the current slots and upgrade levels.
C30_SavedBuildIsCurrentBuild ==
  [][UserChangedBuild
       => loadHeroBuild(heroBuilds', currentHero)
            = appGetBuildData(currentHero, slots', abilityUpgrades')]_vars

====
